---- MODULE Spec2Model ----
(***************************************************************************)
(* peakpip: a command-line wrapper around pip plus a thin client of the    *)
(* PyPI JSON index (src/main.go).  One behaviour of this module is one     *)
(* run of the process: NewPeakPip, Initialize, cobra's Execute (flag       *)
(* parsing, argument validation, PreRunE, RunE) and the exit of main.      *)
(* The environment (PATH, the exit status of each pip subprocess, the      *)
(* answer of each HTTP request) is chosen nondeterministically.            *)
(***************************************************************************)
EXTENDS Integers, Sequences, FiniteSets

VARIABLES
    argv,       \* the command line: verb, names and flags as typed
    PATH,       \* the executables LookPath can find
    p,          \* the PeakPip struct
    pc,         \* position of main: "start", "execute", "prerun", "run", "done"
    i,          \* index of the next element of args in the RunE loop
    spawns,     \* subprocesses started so far (exec.Command(...).Run())
    netcalls,   \* HTTP GETs issued so far, each with the answer it got
    calls,      \* wrapper operations called so far, each with its result
    stdout,     \* lines printed on standard output
    stderr,     \* lines printed on standard error
    packages,   \* the result set of SearchPackages (searchCmd)
    fetched,    \* what each call of GetPackageInfo got and returned
    exitCode    \* exit status of the process, -1 while running

vars == <<argv, PATH, p, pc, i, spawns, netcalls, calls, stdout, stderr,
          packages, fetched, exitCode>>

----------------------------------------------------------------------------
(* Bounds of the model *)

MaxNames == 2

Names == {"a", "b"}
Deps == {"d1", "d2"}
Dirs == {"", "dir"}
Files == {"", "req.txt"}

(* Program constants *)

PyPIURL == "https://pypi.org/pypi"
PyPISimpleURL == "https://pypi.org/simple"
MaxConcurrency == 10
StatusOK == 200

----------------------------------------------------------------------------
(* Inputs *)

SeqsUpTo(S, n) == UNION {[1..k -> S] : k \in 0..n}

Last(s) == s[Len(s)]

MultiVerbs == {"install", "uninstall", "show", "upgrade", "download", "check"}
Verbs == MultiVerbs \cup {"list", "search", "freeze"}

Executables == {"python3", "python", "pip3", "pip"}

ConcurrentValues == {1, MaxConcurrency}

\* The command lines cobra's flag parser accepts: the persistent flags go
\* with every verb, --user/--target/--requirements only with install,
\* --outdated only with list, --dest only with download.
Argvs ==
    {a \in [verb : Verbs, names : SeqsUpTo(Names, MaxNames),
            quiet : BOOLEAN, verbose : BOOLEAN, dryRun : BOOLEAN,
            concurrent : ConcurrentValues,
            user : BOOLEAN, target : Dirs, requirements : Files,
            outdated : BOOLEAN, dest : Dirs] :
        /\ a.verb # "install" =>
              a.user = FALSE /\ a.target = "" /\ a.requirements = ""
        /\ a.verb # "list" => a.outdated = FALSE
        /\ a.verb # "download" => a.dest = ""}

\* What an HTTP GET can come back with: a transport error, or a response
\* with a status code and a body.  A body is either not JSON at all or a
\* JSON document {"info": {"name": ..., "requires_dist": [...]}}.
StatusCodes == {200, 201, 404}

\* The requires_dist arrays of the documents: the dependencies in any order,
\* each at most once
DepLists ==
    {d \in SeqsUpTo(Deps, Cardinality(Deps)) :
        \A j, k \in 1..Len(d) : d[j] = d[k] => j = k}

NotJSON == [json |-> FALSE, name |-> "", requires_dist |-> <<>>]

Bodies ==
    {NotJSON} \cup [json : {TRUE}, name : {"pkg"}, requires_dist : DepLists]

Responses ==
    [err : {TRUE}, status : {0}, body : {NotJSON}]
    \cup [err : {FALSE}, status : StatusCodes, body : Bodies]

\* The answers to the probe of the simple index, whose body (an HTML page)
\* is never read
ProbeResponses ==
    [err : {TRUE}, status : {0}, body : {NotJSON}]
    \cup [err : {FALSE}, status : StatusCodes, body : {NotJSON}]

----------------------------------------------------------------------------
(* NewPeakPip and Initialize *)

NewPeakPip ==
    [pythonPath |-> "", pipPath |-> "", concurrent |-> MaxConcurrency,
     quiet |-> FALSE, verbose |-> FALSE, dryRun |-> FALSE,
     userInstall |-> FALSE, target |-> ""]

\* Variant of LookPath2 that looks for the unversioned name first
LookPath2SecondFirst(first, second) ==
    IF second \in PATH THEN second
    ELSE IF first \in PATH THEN first
    ELSE ""

\* exec.LookPath(first), falling back on exec.LookPath(second); "" when
\* neither is found.
LookPath2(first, second) ==
    IF first \in PATH THEN first
    ELSE IF second \in PATH THEN second
    ELSE ""

Init ==
    /\ argv \in Argvs
    /\ PATH \in SUBSET Executables
    /\ p = NewPeakPip
    /\ pc = "start"
    /\ i = 1
    /\ spawns = <<>>
    /\ netcalls = <<>>
    /\ calls = <<>>
    /\ stdout = <<>>
    /\ stderr = <<>>
    /\ packages = <<>>
    /\ fetched = <<>>
    /\ exitCode = -1

\* os.Exit(1) after the error was written to standard error
Fail(msg) ==
    /\ stderr' = Append(stderr, msg)
    /\ exitCode' = 1
    /\ pc' = "done"

\* main returns
Succeed ==
    /\ stderr' = stderr
    /\ exitCode' = 0
    /\ pc' = "done"

Initialize ==
    /\ pc = "start"
    /\ LET pythonPath == LookPath2("python3", "python")
           pipPath == LookPath2("pip3", "pip")
       IN  IF pythonPath = ""
           THEN /\ Fail(<<"error initializing PeakPip:", "python executable not found in PATH">>)
                /\ UNCHANGED p
           ELSE IF pipPath = ""
           THEN /\ Fail(<<"error initializing PeakPip:", "pip executable not found in PATH">>)
                /\ p' = [p EXCEPT !.pythonPath = pythonPath]
           ELSE /\ p' = [p EXCEPT !.pythonPath = pythonPath, !.pipPath = pipPath]
                /\ pc' = "execute"
                /\ UNCHANGED <<stderr, exitCode>>
    /\ UNCHANGED <<argv, PATH, i, spawns, netcalls, calls, stdout, packages, fetched>>

----------------------------------------------------------------------------
(* The index client *)

\* json.Decoder filling a []string from a JSON array: one append per
\* element, in the order of the document.
RECURSIVE DecodeStrings(_)
DecodeStrings(arr) ==
    IF arr = <<>> THEN <<>>
    ELSE Append(DecodeStrings(SubSeq(arr, 1, Len(arr) - 1)), arr[Len(arr)])

\* json.NewDecoder(resp.Body).Decode(&packageInfo), the Info part
Decode(body) ==
    [Name |-> body.name, Dependencies |-> DecodeStrings(body.requires_dist)]

NoPackage == [Name |-> "", Dependencies |-> <<>>]

\* Variant of GetPackageInfo without the status check: the body of every
\* response is decoded
GetPackageInfoNoStatus(packageName, resp) ==
    LET url == <<PyPIURL, packageName, "json">>
    IN  IF resp.err
        THEN [url |-> url, resp |-> resp,
              err |-> "failed to fetch package info", info |-> NoPackage]
        ELSE IF ~resp.body.json
        THEN [url |-> url, resp |-> resp,
              err |-> "failed to decode package info", info |-> NoPackage]
        ELSE [url |-> url, resp |-> resp,
              err |-> "", info |-> Decode(resp.body)]

\* GetPackageInfo, given the answer resp of p.client.Get(url): the error
\* returned ("" for nil) and the record; url and resp are kept with the
\* result so that the request can be logged.
GetPackageInfo(packageName, resp) ==
    LET url == <<PyPIURL, packageName, "json">>
    IN  IF resp.err
        THEN [url |-> url, resp |-> resp,
              err |-> "failed to fetch package info", info |-> NoPackage]
        ELSE IF resp.status # StatusOK
        THEN [url |-> url, resp |-> resp,
              err |-> "package not found", info |-> NoPackage]
        ELSE IF ~resp.body.json
        THEN [url |-> url, resp |-> resp,
              err |-> "failed to decode package info", info |-> NoPackage]
        ELSE [url |-> url, resp |-> resp,
              err |-> "", info |-> Decode(resp.body)]

InfoCall(r) == [url |-> r.url, resp |-> r.resp]

\* Variant of SearchPackages that fetches the record whatever the status of
\* the probe
SearchPackagesAlwaysFetch(query, probe, resp) ==
    LET probeCall == [url |-> <<PyPISimpleURL, query, "">>, resp |-> probe]
    IN  IF probe.err
        THEN [err |-> "search failed", packages |-> <<>>,
              net |-> <<probeCall>>, fetch |-> <<>>]
        ELSE LET r == GetPackageInfo(query, resp)
             IN  IF r.err # ""
                 THEN [err |-> r.err, packages |-> <<>>,
                       net |-> <<probeCall, InfoCall(r)>>, fetch |-> <<r>>]
                 ELSE [err |-> "", packages |-> <<r.info>>,
                       net |-> <<probeCall, InfoCall(r)>>, fetch |-> <<r>>]

\* SearchPackages, given the answer probe of the simple-index GET and the
\* answer resp the JSON GET gets if it is issued
SearchPackages(query, probe, resp) ==
    LET probeCall == [url |-> <<PyPISimpleURL, query, "">>, resp |-> probe]
    IN  IF probe.err
        THEN [err |-> "search failed", packages |-> <<>>,
              net |-> <<probeCall>>, fetch |-> <<>>]
        ELSE IF probe.status = StatusOK
        THEN LET r == GetPackageInfo(query, resp)
             IN  IF r.err # ""
                 THEN [err |-> r.err, packages |-> <<>>,
                       net |-> <<probeCall, InfoCall(r)>>, fetch |-> <<r>>]
                 ELSE [err |-> "", packages |-> <<r.info>>,
                       net |-> <<probeCall, InfoCall(r)>>, fetch |-> <<r>>]
        ELSE [err |-> "", packages |-> <<>>,
              net |-> <<probeCall>>, fetch |-> <<>>]

RECURSIVE DepLines(_)
DepLines(deps) ==
    IF deps = <<>> THEN <<>>
    ELSE <<<<"  ", Head(deps)>>>> \o DepLines(Tail(deps))

\* ShowPackage: the lines it prints (the scalar fields other than the name
\* are printed the same way and carry no behaviour)
ShowPackage(packageName, resp) ==
    LET r == GetPackageInfo(packageName, resp)
    IN  IF r.err # ""
        THEN [err |-> r.err, out |-> <<>>, net |-> <<InfoCall(r)>>, fetch |-> <<r>>]
        ELSE [err |-> "",
              out |-> <<<<"name:", r.info.Name>>>>
                      \o (IF Len(r.info.Dependencies) > 0
                          THEN <<<<"dependencies:">>>> \o DepLines(r.info.Dependencies)
                          ELSE <<>>),
              net |-> <<InfoCall(r)>>, fetch |-> <<r>>]

----------------------------------------------------------------------------
(* The pip wrappers.  Each takes ok, the outcome of cmd.Run() when a       *)
(* subprocess is started, and yields the subprocess started (if any), the  *)
(* lines printed and whether an error is returned.  A printed line is the  *)
(* sequence of the words of its format string and of its arguments.        *)

Flag(cond, tokens) == IF cond THEN tokens ELSE <<>>

Run(args, ok) ==
    [spawn |-> <<[exe |-> p.pipPath, args |-> args]>>, out |-> <<>>, err |-> ~ok]

DryRun(line) == [spawn |-> <<>>, out |-> <<line>>, err |-> FALSE]

\* Variant of InstallArgs with --target DIR ahead of the behaviour flags
InstallArgsTargetFirst(packageSpec) ==
    <<"install">>
    \o Flag(p.target # "", <<"--target", p.target>>)
    \o Flag(p.quiet, <<"--quiet">>)
    \o Flag(p.verbose, <<"--verbose">>)
    \o Flag(p.userInstall, <<"--user">>)
    \o <<packageSpec>>

InstallArgs(packageSpec) ==
    <<"install">>
    \o Flag(p.quiet, <<"--quiet">>)
    \o Flag(p.verbose, <<"--verbose">>)
    \o Flag(p.userInstall, <<"--user">>)
    \o Flag(p.target # "", <<"--target", p.target>>)
    \o <<packageSpec>>

InstallPackage(packageSpec, ok) ==
    IF p.dryRun THEN DryRun(<<"would", "install", packageSpec>>)
    ELSE Run(InstallArgs(packageSpec), ok)

UninstallArgs(packageName) ==
    <<"uninstall", "-y">>
    \o Flag(p.quiet, <<"--quiet">>)
    \o Flag(p.verbose, <<"--verbose">>)
    \o <<packageName>>

UninstallPackage(packageName, ok) ==
    IF p.dryRun THEN DryRun(<<"would", "uninstall", packageName>>)
    ELSE Run(UninstallArgs(packageName), ok)

ListArgs(outdated) ==
    <<"list">>
    \o Flag(outdated, <<"--outdated">>)
    \o Flag(p.quiet, <<"--quiet">>)
    \o Flag(p.verbose, <<"--verbose">>)

ListPackages(outdated, ok) == Run(ListArgs(outdated), ok)

\* Variant of UpgradeArgs with the name ahead of the flags
UpgradeArgsNameFirst(packageName) ==
    <<"install", "--upgrade", packageName>>
    \o Flag(p.quiet, <<"--quiet">>)
    \o Flag(p.verbose, <<"--verbose">>)
    \o Flag(p.userInstall, <<"--user">>)

UpgradeArgs(packageName) ==
    <<"install", "--upgrade">>
    \o Flag(p.quiet, <<"--quiet">>)
    \o Flag(p.verbose, <<"--verbose">>)
    \o Flag(p.userInstall, <<"--user">>)
    \o <<packageName>>

UpgradePackage(packageName, ok) ==
    IF p.dryRun THEN DryRun(<<"would", "upgrade", packageName>>)
    ELSE Run(UpgradeArgs(packageName), ok)

DownloadArgs(packageName, destDir) ==
    <<"download">>
    \o Flag(destDir # "", <<"--dest", destDir>>)
    \o Flag(p.quiet, <<"--quiet">>)
    \o Flag(p.verbose, <<"--verbose">>)
    \o <<packageName>>

DownloadPackage(packageName, destDir, ok) ==
    IF p.dryRun THEN DryRun(<<"would", "download", packageName, "to", destDir>>)
    ELSE Run(DownloadArgs(packageName, destDir), ok)

FreezePackages(ok) == Run(<<"freeze">>, ok)

RequirementsArgs(requirementsFile) ==
    <<"install", "-r", requirementsFile>>
    \o Flag(p.quiet, <<"--quiet">>)
    \o Flag(p.verbose, <<"--verbose">>)
    \o Flag(p.userInstall, <<"--user">>)
    \o Flag(p.target # "", <<"--target", p.target>>)

InstallRequirements(requirementsFile, ok) ==
    IF p.dryRun THEN DryRun(<<"would", "install", "requirements from", requirementsFile>>)
    ELSE Run(RequirementsArgs(requirementsFile), ok)

CheckPackage(packageName, ok) == Run(<<"show", packageName>>, ok)

----------------------------------------------------------------------------
(* cobra: rootCmd.Execute() *)

\* Variant of ValidateArgs in which installCmd has no Args validator
ValidateArgsInstallAny(verb, names) ==
    IF verb \in {"uninstall", "show", "upgrade", "download", "check"}
    THEN Len(names) >= 1
    ELSE IF verb = "search"
    THEN Len(names) = 1
    ELSE TRUE

\* The Args validator of each command: cobra.MinimumNArgs(1),
\* cobra.ExactArgs(1), or none (a leaf command then takes any arguments).
ValidateArgs(verb, names) ==
    IF verb \in {"install", "uninstall", "show", "upgrade", "download", "check"}
    THEN Len(names) >= 1
    ELSE IF verb = "search"
    THEN Len(names) = 1
    ELSE TRUE

\* Variant of CobraFail in which main prints the error and returns
CobraFailExitZero(msg) ==
    /\ stderr' = stderr \o <<<<"Error:", msg>>, <<"Usage:", argv.verb>>, <<"error:", msg>>>>
    /\ exitCode' = 0
    /\ pc' = "done"

\* cobra reports the error of a command itself ("Error: ..." and the usage)
\* before Execute returns it to main, which prints "error: ..." and exits 1.
CobraFail(msg) ==
    /\ stderr' = stderr \o <<<<"Error:", msg>>, <<"Usage:", argv.verb>>, <<"error:", msg>>>>
    /\ exitCode' = 1
    /\ pc' = "done"

\* Flag parsing binds the flags to the struct, then the arguments are
\* validated, before any PreRunE or RunE.
Execute ==
    /\ pc = "execute"
    /\ p' = [p EXCEPT !.quiet = argv.quiet, !.verbose = argv.verbose,
                      !.dryRun = argv.dryRun, !.concurrent = argv.concurrent,
                      !.userInstall = argv.user, !.target = argv.target]
    /\ IF ValidateArgs(argv.verb, argv.names)
       THEN /\ pc' = IF argv.verb = "install" THEN "prerun" ELSE "run"
            /\ UNCHANGED <<stderr, exitCode>>
       ELSE CobraFail(<<"wrong number of arguments", Len(argv.names)>>)
    /\ UNCHANGED <<argv, PATH, i, spawns, netcalls, calls, stdout, packages, fetched>>

\* What one call of a pip wrapper leaves behind
Record(op, name, r) ==
    /\ spawns' = spawns \o r.spawn
    /\ stdout' = stdout \o r.out
    /\ calls' = Append(calls, [op |-> op, name |-> name, err |-> r.err])

\* Variant of installCmdPreRunE that drops the error of InstallRequirements
installCmdPreRunEDropsError ==
    /\ pc = "prerun"
    /\ argv.verb = "install"
    /\ IF argv.requirements # ""
       THEN \E ok \in BOOLEAN :
              Record("InstallRequirements", argv.requirements,
                     InstallRequirements(argv.requirements, ok))
       ELSE UNCHANGED <<spawns, stdout, calls>>
    /\ pc' = "run"
    /\ UNCHANGED <<stderr, exitCode>>
    /\ UNCHANGED <<argv, PATH, p, i, netcalls, packages, fetched>>

installCmdPreRunE ==
    /\ pc = "prerun"
    /\ argv.verb = "install"
    /\ IF argv.requirements # ""
       THEN \E ok \in BOOLEAN :
              LET r == InstallRequirements(argv.requirements, ok)
              IN  /\ Record("InstallRequirements", argv.requirements, r)
                  /\ IF r.err
                     THEN CobraFail(<<"exit status 1">>)
                     ELSE /\ pc' = "run"
                          /\ UNCHANGED <<stderr, exitCode>>
       ELSE /\ pc' = "run"
            /\ UNCHANGED <<spawns, stdout, calls, stderr, exitCode>>
    /\ UNCHANGED <<argv, PATH, p, i, netcalls, packages, fetched>>

\* Variant of LoopOver that goes on to the next name after an error
LoopOverNoReturn(op, r, pkg, failure) ==
    /\ Record(op, pkg, r)
    /\ i' = i + 1
    /\ UNCHANGED <<pc, stderr, exitCode>>

\* One turn of a RunE loop "for _, pkg := range args" whose body returns an
\* error as soon as the wrapper does; after the last name RunE returns nil.
LoopOver(op, r, pkg, failure) ==
    /\ Record(op, pkg, r)
    /\ i' = i + 1
    /\ IF r.err
       THEN CobraFail(<<failure, pkg>>)
       ELSE UNCHANGED <<pc, stderr, exitCode>>

LoopDone ==
    /\ i > Len(argv.names)
    /\ Succeed
    /\ UNCHANGED <<i, spawns, stdout, calls>>

installCmdRunE ==
    /\ pc = "run"
    /\ argv.verb = "install"
    /\ \/ LoopDone
       \/ /\ i <= Len(argv.names)
          /\ \E ok \in BOOLEAN :
               LoopOver("InstallPackage", InstallPackage(argv.names[i], ok),
                        argv.names[i], "failed to install")
    /\ UNCHANGED <<argv, PATH, p, netcalls, packages, fetched>>

uninstallCmdRunE ==
    /\ pc = "run"
    /\ argv.verb = "uninstall"
    /\ \/ LoopDone
       \/ /\ i <= Len(argv.names)
          /\ \E ok \in BOOLEAN :
               LoopOver("UninstallPackage", UninstallPackage(argv.names[i], ok),
                        argv.names[i], "failed to uninstall")
    /\ UNCHANGED <<argv, PATH, p, netcalls, packages, fetched>>

upgradeCmdRunE ==
    /\ pc = "run"
    /\ argv.verb = "upgrade"
    /\ \/ LoopDone
       \/ /\ i <= Len(argv.names)
          /\ \E ok \in BOOLEAN :
               LoopOver("UpgradePackage", UpgradePackage(argv.names[i], ok),
                        argv.names[i], "failed to upgrade")
    /\ UNCHANGED <<argv, PATH, p, netcalls, packages, fetched>>

downloadCmdRunE ==
    /\ pc = "run"
    /\ argv.verb = "download"
    /\ \/ LoopDone
       \/ /\ i <= Len(argv.names)
          /\ \E ok \in BOOLEAN :
               LoopOver("DownloadPackage",
                        DownloadPackage(argv.names[i], argv.dest, ok),
                        argv.names[i], "failed to download")
    /\ UNCHANGED <<argv, PATH, p, netcalls, packages, fetched>>

\* checkCmd's loop prints the outcome of each CheckPackage and goes on
checkCmdRunE ==
    /\ pc = "run"
    /\ argv.verb = "check"
    /\ \/ LoopDone
       \/ /\ i <= Len(argv.names)
          /\ \E ok \in BOOLEAN :
               LET pkg == argv.names[i]
                   r == CheckPackage(pkg, ok)
               IN  /\ spawns' = spawns \o r.spawn
                   /\ calls' = Append(calls, [op |-> "CheckPackage", name |-> pkg, err |-> r.err])
                   /\ stdout' = Append(stdout,
                                  IF r.err THEN <<pkg, ": not installed">>
                                  ELSE <<pkg, ": installed">>)
                   /\ i' = i + 1
                   /\ UNCHANGED <<pc, stderr, exitCode>>
    /\ UNCHANGED <<argv, PATH, p, netcalls, packages, fetched>>

showCmdRunE ==
    /\ pc = "run"
    /\ argv.verb = "show"
    /\ \/ /\ LoopDone
          /\ UNCHANGED <<netcalls, fetched>>
       \/ /\ i <= Len(argv.names)
          /\ \E resp \in Responses :
               LET pkg == argv.names[i]
                   r == ShowPackage(pkg, resp)
               IN  /\ netcalls' = netcalls \o r.net
                   /\ fetched' = fetched \o r.fetch
                   /\ calls' = Append(calls, [op |-> "ShowPackage", name |-> pkg, err |-> r.err # ""])
                   /\ i' = i + 1
                   /\ spawns' = spawns
                   /\ IF r.err # ""
                      THEN /\ stdout' = stdout
                           /\ CobraFail(<<"failed to show", pkg, r.err>>)
                      ELSE /\ stdout' = stdout \o r.out
                                        \o (IF Len(argv.names) > 1 THEN <<<<"---">>>> ELSE <<>>)
                           /\ UNCHANGED <<pc, stderr, exitCode>>
    /\ UNCHANGED <<argv, PATH, p, packages>>

listCmdRunE ==
    /\ pc = "run"
    /\ argv.verb = "list"
    /\ \E ok \in BOOLEAN :
         LET r == ListPackages(argv.outdated, ok)
         IN  /\ Record("ListPackages", "", r)
             /\ IF r.err THEN CobraFail(<<"exit status 1">>) ELSE Succeed
    /\ UNCHANGED <<argv, PATH, p, i, netcalls, packages, fetched>>

freezeCmdRunE ==
    /\ pc = "run"
    /\ argv.verb = "freeze"
    /\ \E ok \in BOOLEAN :
         LET r == FreezePackages(ok)
         IN  /\ Record("FreezePackages", "", r)
             /\ IF r.err THEN CobraFail(<<"exit status 1">>) ELSE Succeed
    /\ UNCHANGED <<argv, PATH, p, i, netcalls, packages, fetched>>

RECURSIVE ResultLines(_)
ResultLines(pkgs) ==
    IF pkgs = <<>> THEN <<>>
    ELSE <<<<Head(pkgs).Name>>>> \o ResultLines(Tail(pkgs))

searchCmdRunE ==
    /\ pc = "run"
    /\ argv.verb = "search"
    /\ \E probe \in ProbeResponses, resp \in Responses :
         LET r == SearchPackages(argv.names[1], probe, resp)
         IN  /\ netcalls' = netcalls \o r.net
             /\ fetched' = fetched \o r.fetch
             /\ calls' = Append(calls, [op |-> "SearchPackages", name |-> argv.names[1],
                                        err |-> r.err # ""])
             /\ packages' = r.packages
             /\ IF r.err # ""
                THEN /\ stdout' = stdout
                     /\ CobraFail(<<r.err>>)
                ELSE /\ stdout' = stdout \o ResultLines(r.packages)
                     /\ Succeed
    /\ UNCHANGED <<argv, PATH, p, i, spawns>>

Next ==
    \/ Initialize
    \/ Execute
    \/ installCmdPreRunE
    \/ installCmdRunE
    \/ uninstallCmdRunE
    \/ listCmdRunE
    \/ showCmdRunE
    \/ searchCmdRunE
    \/ upgradeCmdRunE
    \/ downloadCmdRunE
    \/ freezeCmdRunE
    \/ checkCmdRunE


Spec == Init /\ [][Next]_vars

----------------------------------------------------------------------------
(* Vocabulary of the properties *)

\* Initialize finds a python and a pip
InitOk ==
    /\ {"python3", "python"} \cap PATH # {}
    /\ {"pip3", "pip"} \cap PATH # {}

\* The argument count the verb asks for
ArityOk ==
    /\ argv.verb \in MultiVerbs => Len(argv.names) >= 1
    /\ argv.verb = "search" => Len(argv.names) = 1

IsRequirements(c) == c.op = "InstallRequirements"
IsPerName(c) == c.op # "InstallRequirements"

\* The calls made for the names of the command line
NameCalls == SelectSeq(calls, IsPerName)

IsRequirementsSpawn(s) == Len(s.args) >= 2 /\ s.args[2] = "-r"
IsNameSpawn(s) == ~IsRequirementsSpawn(s)

\* The subprocesses started for the names of the command line
NameSpawns == SelectSeq(spawns, IsNameSpawn)

Range(s) == {s[k] : k \in 1..Len(s)}

\* The names called so far are the first names of the command line, in order
CallsArePrefix ==
    /\ Len(NameCalls) <= Len(argv.names)
    /\ \A k \in 1..Len(NameCalls) : NameCalls[k].name = argv.names[k]

\* Only the last call can have failed
FailureIsLast ==
    \A k \in 1..Len(NameCalls) : NameCalls[k].err => k = Len(NameCalls)

\* No subprocess and no request beyond one per name called
OneActionPerCall ==
    Len(NameSpawns) + Len(netcalls) <= Len(NameCalls)

----------------------------------------------------------------------------
\* C1 (as stated): for every multi-name verb, check included, the names are
\* processed one at a time in their original order and the first name whose
\* subprocess or index call fails is the last name acted on.
C1_Original ==
    argv.verb \in MultiVerbs =>
        CallsArePrefix /\ FailureIsLast /\ OneActionPerCall

\* C1 (amended): for install, uninstall, show, upgrade and download the
\* names are processed one at a time in their original order and the first
\* name whose subprocess or index call fails is the last name acted on, for
\* every value of --concurrent; check processes its names one at a time in
\* their original order too, but goes on after a failing name and has acted
\* on every name when it ends.
C1_StopsAtFirstFailure ==
    /\ argv.verb \in MultiVerbs => CallsArePrefix /\ OneActionPerCall
    /\ argv.verb \in MultiVerbs \ {"check"} =>
          /\ FailureIsLast
          /\ (pc = "done" /\ exitCode = 0) =>
                Len(NameCalls) = Len(argv.names)
          /\ (pc = "done" /\ exitCode = 1 /\ InitOk /\ ArityOk
                /\ ~(\E k \in 1..Len(calls) : IsRequirements(calls[k]) /\ calls[k].err)) =>
                (NameCalls # <<>> /\ NameCalls[Len(NameCalls)].err)
    /\ (argv.verb = "check" /\ pc = "done" /\ InitOk /\ ArityOk) =>
          Len(NameCalls) = Len(argv.names)

\* C1 witness: a two-name install under --concurrent 10 whose first name
\* failed: one subprocess, nothing for the second name.
C1_Witness ==
    /\ pc = "done"
    /\ argv.verb = "install"
    /\ argv.requirements = ""
    /\ p.concurrent = MaxConcurrency
    /\ ~p.dryRun
    /\ Len(argv.names) = 2
    /\ Len(calls) = 1
    /\ calls[1].err
    /\ Len(spawns) = 1

----------------------------------------------------------------------------
WrapsPip(c) == c.op \notin {"ShowPackage", "SearchPackages"}

\* C2: under --dry-run no subprocess is ever spawned, whatever the verb, and
\* every operation prints a line with the verb and its target.
C2_DryRunNeverSpawns ==
    argv.dryRun =>
        /\ spawns = <<>>
        /\ \A k \in 1..Len(calls) :
              (WrapsPip(calls[k]) /\ calls[k].name # "") =>
                  \E l \in 1..Len(stdout) :
                      /\ stdout[l][1] = "would"
                      /\ stdout[l][2] = argv.verb
                      /\ calls[k].name \in Range(stdout[l])

----------------------------------------------------------------------------
\* C3 (as stated): the exit code is 0 exactly when initialization, argument
\* validation and every operation of the command succeeded, and 1 with the
\* error on standard error otherwise, for every verb, check included.
C3_Original ==
    pc = "done" =>
        /\ exitCode \in {0, 1}
        /\ exitCode = 0 <=>
              (InitOk /\ ArityOk /\ \A k \in 1..Len(calls) : ~calls[k].err)
        /\ exitCode = 1 => stderr # <<>>

\* C3 (amended): for every verb other than check the exit code is 0 exactly
\* when initialization, argument validation and every operation of the
\* command succeeded, and 1 with the error on standard error otherwise;
\* check exits 0 whenever initialization and argument validation succeeded,
\* whether or not its subprocesses did.
C3_ExitCode ==
    pc = "done" =>
        /\ exitCode \in {0, 1}
        /\ exitCode = 0 <=>
              /\ InitOk
              /\ ArityOk
              /\ argv.verb # "check" => \A k \in 1..Len(calls) : ~calls[k].err
        /\ exitCode = 1 => stderr # <<>>

\* C3 witness: an upgrade whose pip subprocess failed and that exited 1
\* with the error on standard error.
C3_Witness ==
    /\ pc = "done"
    /\ argv.verb = "upgrade"
    /\ spawns # <<>>
    /\ calls[Len(calls)].err
    /\ exitCode = 1
    /\ Len(stderr) >= 1

----------------------------------------------------------------------------
\* C4: with zero names, install, uninstall, show, upgrade, download and
\* check fail argument validation before any subprocess or request, whatever
\* the flags: no operation is called (the requirements install of
\* install -r FILE included) and the process exits 1.
C4_ZeroNamesRejected ==
    (argv.verb \in MultiVerbs /\ argv.names = <<>>) =>
        /\ spawns = <<>>
        /\ netcalls = <<>>
        /\ calls = <<>>
        /\ stdout = <<>>
        /\ pc \in {"start", "execute", "done"}
        /\ pc = "done" => exitCode = 1

\* C4 witness: install -r FILE without names, ended by the validation error
C4_Witness ==
    /\ pc = "done"
    /\ InitOk
    /\ argv.verb = "install"
    /\ argv.names = <<>>
    /\ argv.requirements # ""
    /\ ~argv.dryRun
    /\ exitCode = 1
    /\ stderr # <<>>

----------------------------------------------------------------------------
\* The pip sub-command each verb is mapped onto
PipCommand ==
    [v \in Verbs \ {"show", "search"} |->
        CASE v = "upgrade" -> "install"
          [] v = "check" -> "show"
          [] OTHER -> v]

\* The name a subprocess was started for is its last token, and its only name
NameIsTrailing ==
    /\ Len(NameSpawns) <= Len(argv.names)
    /\ \A k \in 1..Len(NameSpawns) :
          LET args == NameSpawns[k].args
          IN  /\ Last(args) = argv.names[k]
              /\ \A j \in 1..(Len(args) - 1) : args[j] \notin Names

\* C5 (as stated): the first token of every subprocess argument list is the
\* verb of the command, and the names are the trailing tokens in order.
C5_Original ==
    /\ \A k \in 1..Len(spawns) : spawns[k].args[1] = argv.verb
    /\ argv.verb \in MultiVerbs => NameIsTrailing

\* C5 (amended): the first token of every subprocess argument list is the pip
\* sub-command the verb maps onto: the verb itself for install, uninstall,
\* list, download and freeze, "install" (followed by --upgrade) for upgrade
\* and "show" for check; the subprocess started for a name has that name as
\* its last token, and the names come in original order across the
\* subprocesses of one command.
C5_VerbFirstNameLast ==
    /\ argv.verb \in {"show", "search"} => spawns = <<>>
    /\ \A k \in 1..Len(spawns) :
          /\ spawns[k].args[1] = PipCommand[argv.verb]
          /\ argv.verb = "upgrade" => spawns[k].args[2] = "--upgrade"
    /\ argv.verb \in MultiVerbs => NameIsTrailing
    /\ argv.verb \in {"list", "freeze"} =>
          \A k \in 1..Len(spawns) : Range(spawns[k].args) \cap Names = {}

\* C5 witness: an upgrade of two names with --quiet, both subprocesses started
C5_Witness ==
    /\ argv.verb = "upgrade"
    /\ argv.names = <<"b", "a">>
    /\ p.quiet
    /\ Len(spawns) = 2
    /\ pc = "done"

----------------------------------------------------------------------------
\* The place the claim gives each token: the operation, then --quiet,
\* --verbose, --user, then the target/destination options with their
\* values, then the name.
StatedRank(args, j) ==
    IF j > 1 /\ args[j - 1] \in {"--target", "--dest", "-r"} THEN 5
    ELSE CASE args[j] \in {"--quiet"} -> 2
           [] args[j] \in {"--verbose"} -> 3
           [] args[j] \in {"--user"} -> 4
           [] args[j] \in {"--target", "--dest", "-r"} -> 5
           [] args[j] \in Names -> 6
           [] OTHER -> 1

\* The place the code gives each token: --dest DIR and -r FILE come right
\* after the operation, --target DIR after the behaviour flags.
CodeRank(args, j) ==
    IF j > 1 /\ args[j - 1] \in {"--dest", "-r"} THEN 2
    ELSE IF j > 1 /\ args[j - 1] = "--target" THEN 6
    ELSE CASE args[j] \in {"--dest", "-r"} -> 2
           [] args[j] \in {"--quiet"} -> 3
           [] args[j] \in {"--verbose"} -> 4
           [] args[j] \in {"--user"} -> 5
           [] args[j] \in {"--target"} -> 6
           [] args[j] \in Names -> 7
           [] OTHER -> 1

\* C6 (as stated): every argument list is in the order operation, behaviour
\* flags, target/destination options (--target DIR, --dest DIR, -r FILE),
\* name; no target/destination option precedes a behaviour flag.
C6_Original ==
    \A k \in 1..Len(spawns) :
        LET args == spawns[k].args
        IN  \A j \in 1..(Len(args) - 1) :
                StatedRank(args, j) <= StatedRank(args, j + 1)

\* C6 (amended): every argument list is in a fixed order: the operation,
\* then --dest DIR (download) or -r FILE (requirements install), then the
\* behaviour flags --quiet, --verbose, --user, then --target DIR, then the
\* package name; --target never precedes a behaviour flag, while --dest DIR
\* and -r FILE precede all of them.
C6_FixedOrder ==
    \A k \in 1..Len(spawns) :
        LET args == spawns[k].args
        IN  /\ \A j \in 1..(Len(args) - 1) :
                  CodeRank(args, j) <= CodeRank(args, j + 1)
            /\ CodeRank(args, 1) = 1
            /\ \A j \in 1..Len(args) :
                  args[j] \in {"--target", "--dest", "-r"} =>
                      j < Len(args) /\ args[j + 1] \in {"dir", "req.txt"}
            /\ argv.verb \notin {"check", "freeze"} =>
                  /\ ("--quiet" \in Range(args)) = p.quiet
                  /\ ("--verbose" \in Range(args)) = p.verbose
            /\ ("--user" \in Range(args)) = p.userInstall
            /\ ("--target" \in Range(args)) = (p.target # "")
            /\ ("--dest" \in Range(args)) = (argv.dest # "")

\* C6 witness: install -r FILE NAME with --quiet, --user and --target: the
\* requirements install and the install of the name were both started.
C6_Witness ==
    /\ argv.verb = "install"
    /\ argv.requirements # ""
    /\ p.quiet /\ p.userInstall /\ p.target # ""
    /\ Len(spawns) = 2

----------------------------------------------------------------------------
\* The outcome fetchRecord must have for an answer, the statuses in ok
\* being those that let the body through
Expected(f, ok) ==
    IF f.resp.err THEN f.err = "failed to fetch package info"
    ELSE IF f.resp.status \notin ok THEN f.err = "package not found"
    ELSE IF ~f.resp.body.json THEN f.err = "failed to decode package info"
    ELSE /\ f.err = ""
         /\ f.info.Name = f.resp.body.name
         /\ f.info.Dependencies = f.resp.body.requires_dist

\* C7 (as stated): fetchRecord ends in NetworkError when the request fails,
\* else NotFound on a non-2xx status, else DecodeError on a malformed body,
\* else (every 2xx status) in a record with the dependencies in source order.
C7_Original ==
    \A k \in 1..Len(fetched) : Expected(fetched[k], 200..299)

\* C7 (amended): fetchRecord ends in NetworkError when the request fails,
\* else NotFound on every status other than 200 (201 and the other 2xx
\* included), else DecodeError on a malformed body, else (status 200 and a
\* well-formed body) in a record with the dependencies in source order.
C7_FetchRecord ==
    \A k \in 1..Len(fetched) :
        /\ Expected(fetched[k], {200})
        /\ fetched[k].err # "" => fetched[k].info = NoPackage

\* C7 witness: a show that decoded a record with two dependencies
C7_Witness ==
    /\ argv.verb = "show"
    /\ Len(fetched) = 1
    /\ fetched[1].err = ""
    /\ fetched[1].info.Dependencies = <<"d2", "d1">>
    /\ pc = "done"

----------------------------------------------------------------------------
ProbeOk == ~netcalls[1].resp.err /\ netcalls[1].resp.status = 200

\* C8: search returns at most one result; fetchRecord is called only after
\* the probe of the simple index succeeded; the result is the fetched record
\* exactly when probe and fetchRecord both succeeded; a fetchRecord failure
\* after a successful probe is an error; an unsuccessful probe response
\* gives the empty result without error.
C8_Search ==
    (argv.verb = "search" /\ pc = "done" /\ InitOk /\ ArityOk) =>
        /\ Len(packages) <= 1
        /\ Len(netcalls) \in {1, 2}
        /\ netcalls[1].url = <<PyPISimpleURL, argv.names[1], "">>
        /\ Len(fetched) = (IF ProbeOk THEN 1 ELSE 0)
        /\ Len(netcalls) = 1 + Len(fetched)
        /\ Len(fetched) = 1 =>
              /\ netcalls[2].url = <<PyPIURL, argv.names[1], "json">>
              /\ fetched[1].resp = netcalls[2].resp
        /\ Len(packages) = 1 <=> (ProbeOk /\ fetched[1].err = "")
        /\ Len(packages) = 1 => packages[1] = fetched[1].info
        /\ (ProbeOk /\ fetched[1].err # "") =>
              (calls[1].err /\ exitCode = 1 /\ packages = <<>>)
        /\ (~netcalls[1].resp.err /\ ~ProbeOk) =>
              (packages = <<>> /\ ~calls[1].err /\ exitCode = 0)
        /\ netcalls[1].resp.err => (calls[1].err /\ exitCode = 1)

\* C8 witness: a search whose probe and fetch both succeeded
C8_Witness ==
    /\ argv.verb = "search"
    /\ pc = "done"
    /\ Len(netcalls) = 2
    /\ Len(packages) = 1
    /\ packages[1].Dependencies = <<"d1", "d2">>
    /\ exitCode = 0

----------------------------------------------------------------------------
\* C9: without a python (python3 or python) or without a pip (pip3 or pip)
\* on PATH the process exits 1 before anything is dispatched, spawned or
\* requested, whatever the verb and flags; python3 is taken before python
\* and pip3 before pip.
C9_InitFailureIsFatal ==
    /\ ~InitOk =>
          /\ pc \in {"start", "done"}
          /\ spawns = <<>> /\ netcalls = <<>> /\ calls = <<>> /\ stdout = <<>>
          /\ pc = "done" => (exitCode = 1 /\ stderr # <<>>)
    /\ (InitOk /\ pc # "start") =>
          /\ p.pythonPath = (IF "python3" \in PATH THEN "python3" ELSE "python")
          /\ p.pipPath = (IF "pip3" \in PATH THEN "pip3" ELSE "pip")
    /\ \A k \in 1..Len(spawns) :
          spawns[k].exe = (IF "pip3" \in PATH THEN "pip3" ELSE "pip")

\* C9 witness: a dry-run show with both pythons and no pip, exited with 1
C9_Witness ==
    /\ pc = "done"
    /\ PATH = {"python3", "python"}
    /\ argv.verb = "show"
    /\ argv.dryRun
    /\ argv.names # <<>>
    /\ exitCode = 1

----------------------------------------------------------------------------
\* C10: install -r FILE with one or more names runs the requirements
\* install exactly once and before the install of any name; if it fails no
\* name is installed and the exit code is 1; if it succeeds the names are
\* installed in order as in a plain install.
C10_RequirementsFirst ==
    (argv.verb = "install" /\ argv.requirements # "" /\ argv.names # <<>>) =>
        /\ \A k \in 1..Len(calls) : IsRequirements(calls[k]) <=> k = 1
        /\ calls # <<>> => calls[1].name = argv.requirements
        /\ pc \in {"run", "done"} /\ InitOk => calls # <<>>
        /\ ~p.dryRun =>
              /\ Len(spawns) = Len(calls)
              /\ \A k \in 1..Len(spawns) : IsRequirementsSpawn(spawns[k]) <=> k = 1
              /\ spawns # <<>> =>
                    SubSeq(spawns[1].args, 1, 3) = <<"install", "-r", argv.requirements>>
        /\ (calls # <<>> /\ calls[1].err) =>
              /\ Len(calls) = 1
              /\ pc = "done"
              /\ exitCode = 1
        /\ (calls # <<>> /\ ~calls[1].err) =>
              /\ CallsArePrefix
              /\ FailureIsLast
              /\ pc = "done" =>
                    /\ exitCode = 0 <=> \A k \in 1..Len(calls) : ~calls[k].err
                    /\ exitCode = 0 => Len(NameCalls) = Len(argv.names)

\* C10 witness: install -r req.txt a b, everything succeeded: three
\* subprocesses, the requirements install first
C10_Witness ==
    /\ pc = "done"
    /\ argv.verb = "install"
    /\ argv.requirements = "req.txt"
    /\ argv.names = <<"a", "b">>
    /\ ~p.dryRun
    /\ Len(spawns) = 3
    /\ exitCode = 0

====
